---- MODULE Spec2Model ----
(***************************************************************************)
(* Model of the risk assessment engine of Project-Nasa_Will_It_Rain:       *)
(* the time-window resolver and series slicer of app/core/timeutil.py      *)
(* (specification Spec) and the factor scorers, the confidence and the     *)
(* composite score of app/core/risk.py (specification RiskSpec).           *)
(*                                                                         *)
(* A datetime is a record of its wall-clock fields plus `aware` (does it   *)
(* carry a tzinfo) and `utcoffset` (minutes east of UTC, 0 when naive).    *)
(* A reading is either None (absent) or Some(v) with v an integer number   *)
(* of tenths of the unit.  A mean is an exact fraction <<num, den>> in     *)
(* lowest terms, so that "mean = sum / count" is a statement about numbers *)
(* and not about one expression written twice.                             *)
(***************************************************************************)
EXTENDS Integers, Sequences, FiniteSets, TLC

VARIABLES times, data, target_date, time_window, timezone_str,
          pc, window, sliceRes, statsRes, resliceRes, riskCall, riskRes,
          frames

vars == <<times, data, target_date, time_window, timezone_str,
          pc, window, sliceRes, statsRes, resliceRes, riskCall, riskRes,
          frames>>

\* Longest series of timestamps the provider parser delivers in the model.
MaxLen == 2

-----------------------------------------------------------------------------
(* Optional values: Python's None and a present value.                     *)

None == <<>>

Some(v) == <<v>>

\* The readings a provider field can hold (tenths; a negative one included).
Readings == {None, Some(-2), Some(7)}

-----------------------------------------------------------------------------
(* The proleptic Gregorian calendar of datetime.date.                      *)

Years == 2023..2024

IsLeap(y) == (y % 4 = 0) /\ ((y % 100 # 0) \/ (y % 400 = 0))

DaysInMonth(y, m) ==
    IF m = 2 THEN (IF IsLeap(y) THEN 29 ELSE 28)
    ELSE IF m \in {4, 6, 9, 11} THEN 30 ELSE 31

RECURSIVE DaysBeforeMonth(_, _)
DaysBeforeMonth(y, m) ==
    IF m = 1 THEN 0 ELSE DaysBeforeMonth(y, m - 1) + DaysInMonth(y, m - 1)

DaysBeforeYear(y) ==
    (y - 1) * 365 + ((y - 1) \div 4) - ((y - 1) \div 100) + ((y - 1) \div 400)

\* date.toordinal(): 1 is 0001-01-01.
ToOrdinal(dt) ==
    DaysBeforeYear(dt.year) + DaysBeforeMonth(dt.year, dt.month) + dt.day

\* date.fromordinal(n), for the years of the model.
FromOrdinal(n) ==
    LET y == CHOOSE yy \in Years \cup {2025} :
                 DaysBeforeYear(yy) < n /\ n <= DaysBeforeYear(yy + 1)
        r == n - DaysBeforeYear(y)
        m == CHOOSE mm \in 1..12 :
                 DaysBeforeMonth(y, mm) < r
                 /\ r <= DaysBeforeMonth(y, mm) + DaysInMonth(y, mm)
    IN  [year |-> y, month |-> m, day |-> r - DaysBeforeMonth(y, m)]

-----------------------------------------------------------------------------
(* datetime operations used by the slicer.                                 *)

DateTime(y, mo, d, h, mi, s) ==
    [year |-> y, month |-> mo, day |-> d, hour |-> h, minute |-> mi,
     second |-> s, aware |-> FALSE, utcoffset |-> 0]

\* datetime.replace(tzinfo=tz): the wall-clock fields stay, the offset is tz's.
ReplaceTzinfo(dt, off) == [dt EXCEPT !.aware = TRUE, !.utcoffset = off]

\* datetime.replace(hour=h, minute=m): seconds are left as they are.
ReplaceHourMinute(dt, t) == [dt EXCEPT !.hour = t.hour, !.minute = t.minute]

\* dt + timedelta(days=n): wall-clock arithmetic, tzinfo kept.
AddDays(dt, n) ==
    LET ymd == FromOrdinal(ToOrdinal(dt) + n)
    IN  [dt EXCEPT !.year = ymd.year, !.month = ymd.month, !.day = ymd.day]

\* The instant an aware datetime denotes (the wall clock, for a naive one), in
\* seconds since the first midnight of the model's years.
UtcSeconds(dt) ==
    (ToOrdinal(dt) - DaysBeforeYear(2023)) * 86400
    + dt.hour * 3600 + dt.minute * 60 + dt.second - dt.utcoffset * 60

\* Ordering two datetimes raises TypeError when exactly one of them is naive.
Comparable(a, b) == a.aware = b.aware

DtGE(a, b) == UtcSeconds(a) >= UtcSeconds(b)

DtLT(a, b) == UtcSeconds(a) < UtcSeconds(b)

-----------------------------------------------------------------------------
(* pytz.                                                                   *)

Timezones == {"UTC", "Asia/Kolkata", "Asia/Singapore"}

\* The offset (minutes) of the tzinfo object pytz.timezone(name) itself, which
\* is what datetime.replace(tzinfo=...) attaches: for a zone with history it
\* is the zone's first entry, its local mean time (Kolkata LMT+5:53,
\* Singapore LMT+6:55), not the offset in force on the date; UTC is fixed.
PytzTimezone(name) ==
    CASE name = "Asia/Kolkata"   -> 353
      [] name = "Asia/Singapore" -> 415
      [] OTHER                   -> 0

\* The offset (minutes) in force in the zone on the dates of the model (IST,
\* SGT; neither zone has daylight saving time).
UtcOffsetInForce(name) ==
    CASE name = "Asia/Kolkata"   -> 330
      [] name = "Asia/Singapore" -> 480
      [] OTHER                   -> 0

-----------------------------------------------------------------------------
(* app/core/timeutil.py                                                    *)

EVENING_START   == [hour |-> 18, minute |-> 0]
EVENING_END     == [hour |-> 21, minute |-> 0]
MORNING_START   == [hour |-> 6,  minute |-> 0]
MORNING_END     == [hour |-> 12, minute |-> 0]
AFTERNOON_START == [hour |-> 12, minute |-> 0]
AFTERNOON_END   == [hour |-> 18, minute |-> 0]
NIGHT_START     == [hour |-> 21, minute |-> 0]
NIGHT_END       == [hour |-> 6,  minute |-> 0]

\* The resolver with Morning as the interval of an unknown name.
get_time_window_bounds_morning_fallback(tw) ==
    CASE tw = "Afternoon" -> <<AFTERNOON_START, AFTERNOON_END>>
      [] tw = "Evening"   -> <<EVENING_START, EVENING_END>>
      [] tw = "Night"     -> <<NIGHT_START, NIGHT_END>>
      [] OTHER            -> <<MORNING_START, MORNING_END>>

get_time_window_bounds(tw) ==
    CASE tw = "Morning"   -> <<MORNING_START, MORNING_END>>
      [] tw = "Afternoon" -> <<AFTERNOON_START, AFTERNOON_END>>
      [] tw = "Evening"   -> <<EVENING_START, EVENING_END>>
      [] tw = "Night"     -> <<NIGHT_START, NIGHT_END>>
      [] OTHER            -> <<EVENING_START, EVENING_END>>

\* The slicer without its Night branch.
SpansMidnightNever(tw) == FALSE

\* Does the window end on the day after target_date (timeutil.py:60).
SpansMidnight(tw) == tw = "Night"

\* <<start_datetime, end_datetime>> of slice_hourly_data_for_window.
WindowBounds(td, tw, tz) ==
    LET target_date_local == ReplaceTzinfo(td, PytzTimezone(tz))
        bounds            == get_time_window_bounds(tw)
    IN  IF SpansMidnight(tw)
        THEN <<ReplaceHourMinute(target_date_local, bounds[1]),
               ReplaceHourMinute(AddDays(target_date_local, 1), bounds[2])>>
        ELSE <<ReplaceHourMinute(target_date_local, bounds[1]),
               ReplaceHourMinute(target_date_local, bounds[2])>>

\* The test of the filter loop: start inclusive, end exclusive.
InWindow(dt, start_datetime, end_datetime) ==
    DtGE(dt, start_datetime) /\ DtLT(dt, end_datetime)

\* The value stored beside the timestamp at (1-based) index i.
ValueAt(ds, i) == IF i <= Len(ds) THEN ds[i] ELSE None

Returned(ft, fd) == [raised |-> FALSE, times |-> ft, data |-> fd]

\* An exception leaves the call: there is no result.
Raised == [raised |-> TRUE, times |-> <<>>, data |-> <<>>]

RECURSIVE FilterLoop(_, _, _, _, _, _, _)
FilterLoop(ts, ds, start_datetime, end_datetime, i, ft, fd) ==
    IF i > Len(ts) THEN Returned(ft, fd)
    ELSE IF ~Comparable(ts[i], start_datetime) THEN Raised
    ELSE IF InWindow(ts[i], start_datetime, end_datetime)
         THEN FilterLoop(ts, ds, start_datetime, end_datetime, i + 1,
                         Append(ft, ts[i]), Append(fd, ValueAt(ds, i)))
         ELSE FilterLoop(ts, ds, start_datetime, end_datetime, i + 1, ft, fd)

\* The guard written `not any(data)`: a series of absent values counts as empty.
EmptyInputOrAllAbsent(ts, ds) ==
    ts = <<>> \/ \A i \in 1..Len(ds) : ds[i] = None

\* `if not times or not data: return [], []`
EmptyInput(ts, ds) == ts = <<>> \/ ds = <<>>

slice_hourly_data_for_window(ts, ds, td, tw, tz) ==
    IF EmptyInput(ts, ds) THEN Returned(<<>>, <<>>)
    ELSE LET w == WindowBounds(td, tw, tz)
         IN  FilterLoop(ts, ds, w[1], w[2], 1, <<>>, <<>>)

\* The window the call computed, <<>> when it returned before computing one.
WindowComputed(ts, ds, td, tw, tz) ==
    IF EmptyInput(ts, ds) THEN <<>> ELSE WindowBounds(td, tw, tz)

-----------------------------------------------------------------------------
(* Aggregation of get_daypart_stats.                                       *)

Abs(n) == IF n < 0 THEN -n ELSE n

RECURSIVE Gcd(_, _)
Gcd(a, b) == IF b = 0 THEN a ELSE Gcd(b, a % b)

\* a / b as a fraction in lowest terms, b > 0.
Quotient(a, b) ==
    LET g == Gcd(Abs(a), b) IN <<a \div g, b \div g>>

\* [x for x in filtered_data if x is not None]
RECURSIVE ValidData(_)
ValidData(fd) ==
    IF fd = <<>> THEN <<>>
    ELSE IF Head(fd) = None THEN ValidData(Tail(fd))
    ELSE <<Head(fd)[1]>> \o ValidData(Tail(fd))

RECURSIVE SumSeq(_)
SumSeq(s) == IF s = <<>> THEN 0 ELSE Head(s) + SumSeq(Tail(s))

\* The latest sample taken for the largest.
LastSample(s) == s[Len(s)]

MaxSeq(s) == CHOOSE x \in {s[i] : i \in 1..Len(s)} :
                 \A j \in 1..Len(s) : s[j] <= x

MinSeq(s) == CHOOSE x \in {s[i] : i \in 1..Len(s)} :
                 \A j \in 1..Len(s) : x <= s[j]

NullStats(n) ==
    [raised |-> FALSE, count |-> n, mean |-> None, max |-> None,
     min |-> None, sum |-> None]

StatsRaised ==
    [raised |-> TRUE, count |-> 0, mean |-> None, max |-> None,
     min |-> None, sum |-> None]

\* An all-absent slice reported with count 0.
AllAbsentCountZero(fd) == 0

\* The count reported when the slice holds readings but none is present.
AllAbsentCount(fd) == Len(fd)

\* The count taken over the whole slice, absent values included.
SliceCount(fd) == Len(fd)

\* The count reported beside the aggregates.
ValidCount(fd) == Len(ValidData(fd))

StatsOf(fd) ==
    LET valid_data == ValidData(fd)
    IN  IF fd = <<>> THEN NullStats(0)
        ELSE IF valid_data = <<>> THEN NullStats(AllAbsentCount(fd))
        ELSE [raised |-> FALSE,
              count  |-> ValidCount(fd),
              mean   |-> Some(Quotient(SumSeq(valid_data), Len(valid_data))),
              max    |-> Some(MaxSeq(valid_data)),
              min    |-> Some(MinSeq(valid_data)),
              sum    |-> Some(SumSeq(valid_data))]

get_daypart_stats(ts, ds, td, tw, tz) ==
    LET r == slice_hourly_data_for_window(ts, ds, td, tw, tz)
    IN  IF r.raised THEN StatsRaised ELSE StatsOf(r.data)

-----------------------------------------------------------------------------
(* app/core/risk.py: the factor scorers.                                   *)
(*                                                                         *)
(* Readings are tenths of the unit (mm/h, %, degrees C, km/h, km, UV), so  *)
(* the thresholds below are the source's values times ten.  A score is an  *)
(* integer number of thousandths of a point, which keeps every product     *)
(* the scorers form (x0.6, x0.4, x0.8, x5, x2) exact.  A list parameter    *)
(* left at its default None is the empty sequence: the scorers only test   *)
(* such a parameter for truth.                                             *)

RAIN_WEIGHT              == 40
TEMPERATURE_WEIGHT       == 25
WIND_WEIGHT              == 20
VISIBILITY_WEIGHT        == 15

DRIZZLE_THRESHOLD        == 2
RAIN_THRESHOLD           == 10
HEAVY_RAIN_THRESHOLD     == 40
ELEVATED_PROB_THRESHOLD  == 500
HIGH_PROB_THRESHOLD      == 700
COOL_THRESHOLD           == 180
HOT_THRESHOLD            == 320
GUST_CAUTION_THRESHOLD   == 350
GUST_HIGH_THRESHOLD      == 550
CLOUD_HIGH_THRESHOLD     == 800
UV_HIGH_THRESHOLD        == 70

\* n points as thousandths of a point.
Points(n) == n * 1000

MinOf(a, b) == IF a <= b THEN a ELSE b

\* The intensity tier of the heaviest hour.
IntensityScore(max_precip) ==
    IF max_precip >= HEAVY_RAIN_THRESHOLD THEN Points(100)
    ELSE IF max_precip >= RAIN_THRESHOLD THEN Points(70)
    ELSE IF max_precip >= DRIZZLE_THRESHOLD THEN Points(40)
    ELSE 0

\* The probability tier: a probability strictly above the elevated threshold
\* only.
ProbScoreStrict(max_prob) ==
    IF max_prob >= HIGH_PROB_THRESHOLD THEN Points(100)
    ELSE IF max_prob > ELEVATED_PROB_THRESHOLD THEN Points(60)
    ELSE max_prob * 60

\* The probability tier of the likeliest hour; max_prob * 0.6 below the tiers.
ProbScore(max_prob) ==
    IF max_prob >= HIGH_PROB_THRESHOLD THEN Points(100)
    ELSE IF max_prob >= ELEVATED_PROB_THRESHOLD THEN Points(60)
    ELSE max_prob * 60

\* The rain score of whichever series has data: a missing probability counts
\* as 0 % and missing precipitation as dry.
calculate_rain_score_either(precipitation, precipitation_prob, is_day) ==
    LET valid_precip == ValidData(precipitation)
        valid_prob   == ValidData(precipitation_prob)
        intensity_score == IF valid_precip = <<>> THEN 0
                           ELSE IntensityScore(MaxSeq(valid_precip))
        prob_score      == IF valid_prob = <<>> THEN 0
                           ELSE ProbScore(MaxSeq(valid_prob))
    IN  MinOf((intensity_score * 6 + prob_score * 4) \div 10, Points(100))

calculate_rain_score(precipitation, precipitation_prob, is_day) ==
    IF precipitation = <<>> \/ precipitation_prob = <<>> THEN 0
    ELSE LET valid_precip == ValidData(precipitation)
             valid_prob   == ValidData(precipitation_prob)
         IN  IF valid_precip = <<>> \/ valid_prob = <<>> THEN 0
             ELSE LET intensity_score == IntensityScore(MaxSeq(valid_precip))
                      prob_score      == ProbScore(MaxSeq(valid_prob))
                      rain_score      ==
                          (intensity_score * 6 + prob_score * 4) \div 10
                  IN  MinOf(rain_score, Points(100))

\* The heat penalty left out.
HotDiscomfortNone(max_temp) == 0

\* (max_temp - HOT_THRESHOLD) * 5, at most 50, above the hot threshold.
HotDiscomfort(max_temp) ==
    IF max_temp > HOT_THRESHOLD
    THEN MinOf((max_temp - HOT_THRESHOLD) * 500, Points(50))
    ELSE 0

\* (COOL_THRESHOLD - min_temp) * 5, at most 50, below the cool threshold.
ColdDiscomfort(min_temp) ==
    IF min_temp < COOL_THRESHOLD
    THEN MinOf((COOL_THRESHOLD - min_temp) * 500, Points(50))
    ELSE 0

calculate_temperature_score(apparent_temps, is_day) ==
    IF apparent_temps = <<>> THEN 0
    ELSE LET valid_temps == ValidData(apparent_temps)
         IN  IF valid_temps = <<>> THEN 0
             ELSE MinOf(ColdDiscomfort(MinSeq(valid_temps))
                            + HotDiscomfort(MaxSeq(valid_temps)),
                        Points(100))

\* The speed contribution applied from 30 km/h on without its cap.
SpeedPartUncapped(wind_speeds) ==
    LET valid_speeds == ValidData(wind_speeds)
    IN  IF wind_speeds = <<>> \/ valid_speeds = <<>> THEN 0
        ELSE IF MaxSeq(valid_speeds) > 300
             THEN (MaxSeq(valid_speeds) - 300) * 200
             ELSE 0

\* if wind_speeds: ... score += min((max_speed - 30) * 2, 40)
SpeedPart(wind_speeds) ==
    LET valid_speeds == ValidData(wind_speeds)
    IN  IF wind_speeds = <<>> \/ valid_speeds = <<>> THEN 0
        ELSE IF MaxSeq(valid_speeds) > 300
             THEN MinOf((MaxSeq(valid_speeds) - 300) * 200, Points(40))
             ELSE 0

\* if wind_gusts: ... 60 / 40 / min(max_gust * 0.8, 30)
GustPart(wind_gusts) ==
    LET valid_gusts == ValidData(wind_gusts)
    IN  IF wind_gusts = <<>> \/ valid_gusts = <<>> THEN 0
        ELSE LET max_gust == MaxSeq(valid_gusts)
             IN  IF max_gust >= GUST_HIGH_THRESHOLD THEN Points(60)
                 ELSE IF max_gust >= GUST_CAUTION_THRESHOLD THEN Points(40)
                 ELSE MinOf(max_gust * 80, Points(30))

calculate_wind_score(wind_speeds, wind_gusts) ==
    IF wind_speeds = <<>> /\ wind_gusts = <<>> THEN 0
    ELSE MinOf(SpeedPart(wind_speeds) + GustPart(wind_gusts), Points(100))

\* An absent cloud reading counted as a fully overcast hour.
CloudPartAbsentAsOvercast(cloud_cover) ==
    LET filled == [k \in 1..Len(cloud_cover) |->
                      IF cloud_cover[k] = None THEN 1000
                      ELSE cloud_cover[k][1]]
    IN  IF cloud_cover = <<>> THEN 0
        ELSE IF SumSeq(filled) > CLOUD_HIGH_THRESHOLD * Len(filled)
             THEN Points(50)
             ELSE IF SumSeq(filled) > 600 * Len(filled)
                  THEN Points(30)
                  ELSE 0

\* if cloud_cover: avg_cloud > 80 gives 50, > 60 gives 30.
CloudPart(cloud_cover) ==
    LET valid_clouds == ValidData(cloud_cover)
    IN  IF cloud_cover = <<>> \/ valid_clouds = <<>> THEN 0
        ELSE IF SumSeq(valid_clouds) > CLOUD_HIGH_THRESHOLD * Len(valid_clouds)
             THEN Points(50)
             ELSE IF SumSeq(valid_clouds) > 600 * Len(valid_clouds)
                  THEN Points(30)
                  ELSE 0

\* if visibility: min_visibility < 5 gives 40, < 10 gives 20.
VisibilityPart(visibility) ==
    LET valid_visibility == ValidData(visibility)
    IN  IF visibility = <<>> \/ valid_visibility = <<>> THEN 0
        ELSE IF MinSeq(valid_visibility) < 50 THEN Points(40)
             ELSE IF MinSeq(valid_visibility) < 100 THEN Points(20)
                  ELSE 0

\* [uv for uv, day in zip(valid_uv, valid_day) if day and uv is not None]:
\* the k-th present UV reading is paired with the k-th present flag.
RECURSIVE DayUv(_, _)
DayUv(valid_uv, valid_day) ==
    IF valid_uv = <<>> \/ valid_day = <<>> THEN <<>>
    ELSE (IF Head(valid_day) THEN <<Head(valid_uv)>> ELSE <<>>)
             \o DayUv(Tail(valid_uv), Tail(valid_day))

\* if uv_index and is_day: ... max(day_uv) >= UV_HIGH_THRESHOLD gives 30.
UvPart(uv_index, is_day) ==
    IF uv_index = <<>> \/ is_day = <<>> THEN 0
    ELSE LET valid_uv  == ValidData(uv_index)
             valid_day == ValidData(is_day)
         IN  IF valid_uv = <<>> \/ valid_day = <<>> THEN 0
             ELSE LET day_uv == DayUv(valid_uv, valid_day)
                  IN  IF day_uv # <<>> /\ MaxSeq(day_uv) >= UV_HIGH_THRESHOLD
                      THEN Points(30)
                      ELSE 0

calculate_visibility_score(cloud_cover, visibility, uv_index, is_day) ==
    MinOf(CloudPart(cloud_cover) + VisibilityPart(visibility)
              + UvPart(uv_index, is_day),
          Points(100))

-----------------------------------------------------------------------------
(* app/core/risk.py: confidence and the composite score.                   *)
(*                                                                         *)
(* An hourly record carries `present` (is hourly_data an object or None)   *)
(* and the series the engine reads.  current_data and google_data are None *)
(* or Some(object); the object's temperature is None or Some(tenths).      *)
(* Confidence factors are exact fractions <<num, den>> in lowest terms.    *)

\* The four key fields of the completeness factor.
KeyFields(hourly_data) ==
    <<hourly_data.temperature_2m, hourly_data.precipitation,
      hourly_data.precipitation_probability, hourly_data.wind_speed_10m>>

\* total_fields: the key fields that are non-empty lists.
TotalFields(hourly_data) ==
    Cardinality({k \in 1..4 : KeyFields(hourly_data)[k] # <<>>})

\* complete_fields: the non-empty key fields with a present sample.
CompleteFields(hourly_data) ==
    Cardinality({k \in 1..4 : /\ KeyFields(hourly_data)[k] # <<>>
                              /\ ValidData(KeyFields(hourly_data)[k]) # <<>>})

\* The completeness factor, when it is appended.
CompletenessFactors(hourly_data) ==
    IF hourly_data.present /\ TotalFields(hourly_data) > 0
    THEN <<Quotient(CompleteFields(hourly_data), TotalFields(hourly_data))>>
    ELSE <<>>

\* The agreement tiers with the boundaries counted into the better tier.
AgreementOfInclusive(temp_diff) ==
    IF temp_diff <= 20 THEN Quotient(8, 10)
    ELSE IF temp_diff <= 50 THEN Quotient(6, 10)
    ELSE Quotient(3, 10)

\* temp_diff < 2.0 gives 0.8, < 5.0 gives 0.6, else 0.3.
AgreementOf(temp_diff) ==
    IF temp_diff < 20 THEN Quotient(8, 10)
    ELSE IF temp_diff < 50 THEN Quotient(6, 10)
    ELSE Quotient(3, 10)

\* The agreement factor, when it is appended.
AgreementFactors(current_data, google_data) ==
    IF /\ current_data # None
       /\ google_data # None
       /\ current_data[1].temperature_2m # None
       /\ google_data[1].temperature # None
    THEN <<AgreementOf(Abs(current_data[1].temperature_2m[1]
                               - google_data[1].temperature[1]))>>
    ELSE <<>>

\* No time proximity factor.
ProximityFactorsNone == <<>>

\* confidence_factors.append(0.7)
ProximityFactors == <<Quotient(7, 10)>>

ConfidenceFactors(hourly_data, current_data, google_data) ==
    CompletenessFactors(hourly_data)
        \o AgreementFactors(current_data, google_data)
        \o ProximityFactors

\* Sum of fractions, in lowest terms.
RECURSIVE FracSum(_)
FracSum(fs) ==
    IF fs = <<>> THEN <<0, 1>>
    ELSE LET a == Head(fs)
             b == FracSum(Tail(fs))
         IN  Quotient(a[1] * b[2] + b[1] * a[2], a[2] * b[2])

FracGE(a, b) == a[1] * b[2] >= b[1] * a[2]

\* sum(confidence_factors) / len(confidence_factors), or 0.5 for no factor.
ConfidenceValue(factors) ==
    IF factors # <<>>
    THEN LET s == FracSum(factors) IN Quotient(s[1], s[2] * Len(factors))
    ELSE Quotient(5, 10)

\* The levels with the boundaries counted into the lower level.
ConfidenceLevelStrict(confidence_value) ==
    IF ~FracGE(Quotient(8, 10), confidence_value) THEN "High"
    ELSE IF ~FracGE(Quotient(6, 10), confidence_value) THEN "Medium"
    ELSE "Low"

ConfidenceLevel(confidence_value) ==
    IF FracGE(confidence_value, Quotient(8, 10)) THEN "High"
    ELSE IF FracGE(confidence_value, Quotient(6, 10)) THEN "Medium"
    ELSE "Low"

\* The (level, value) pair returned, with the factor list it was formed from
\* (and its completeness and agreement entries, each a list of none or one)
\* and whether the no-factor branch was taken.
calculate_confidence(hourly_data, current_data, google_data) ==
    LET confidence_factors ==
            ConfidenceFactors(hourly_data, current_data, google_data)
        confidence_value == ConfidenceValue(confidence_factors)
    IN  [level    |-> ConfidenceLevel(confidence_value),
         value    |-> confidence_value,
         factors  |-> confidence_factors,
         completeness |-> CompletenessFactors(hourly_data),
         agreement    |-> AgreementFactors(current_data, google_data),
         fallback |-> confidence_factors = <<>>]

\* round(x, ndigits) of an integer x to a multiple of m: the nearest multiple;
\* at an exact decimal tie the binary value of the float decides, so either
\* neighbour is possible.
RoundChoices(x, m) ==
    LET lo == (x \div m) * m
        r  == x - lo
    IN  IF 2 * r < m THEN {lo}
        ELSE IF 2 * r > m THEN {lo + m}
        ELSE {lo, lo + m}

\* round(value, 2) of a fraction, in hundredths.
RoundHundredths(f) ==
    LET lo == (100 * f[1]) \div f[2]
        r  == 100 * f[1] - lo * f[2]
    IN  IF 2 * r < f[2] THEN {lo}
        ELSE IF 2 * r > f[2] THEN {lo + 1}
        ELSE {lo, lo + 1}

\* The four factors weighted alike.
CompositeScoreEqualWeights(rain_score, temp_score, wind_score, visibility_score) ==
    (rain_score + temp_score + wind_score + visibility_score) * 25

\* The weighted sum, in hundred-thousandths of a point (weights in hundredths).
CompositeScore(rain_score, temp_score, wind_score, visibility_score) ==
    rain_score * RAIN_WEIGHT + temp_score * TEMPERATURE_WEIGHT
        + wind_score * WIND_WEIGHT + visibility_score * VISIBILITY_WEIGHT

\* The hours' UV taken from the is-day flags: a high UV at every day hour.
UvOfDayHours(hourly_data) ==
    [k \in 1..Len(hourly_data.is_day) |-> Some(80)]

\* The uv_index argument of the visibility scorer: None ("UV index not
\* available in hourly data").
UvArgument(hourly_data) == <<>>

\* The four scores of the hourly record, <<rain, temperature, wind,
\* visibility>>; all 0.0 when there is no record.
FactorScores(hourly_data) ==
    IF hourly_data.present
    THEN <<calculate_rain_score(hourly_data.precipitation,
                                hourly_data.precipitation_probability,
                                hourly_data.is_day),
           calculate_temperature_score(hourly_data.apparent_temperature,
                                       hourly_data.is_day),
           calculate_wind_score(hourly_data.wind_speed_10m,
                                hourly_data.wind_gusts_10m),
           calculate_visibility_score(hourly_data.cloud_cover,
                                      hourly_data.visibility,
                                      UvArgument(hourly_data),
                                      hourly_data.is_day)>>
    ELSE <<0, 0, 0, 0>>

\* The RiskScore objects built from the four scores and the confidence (one,
\* but for rounding ties).  Scores are thousandths of a point;
\* confidence_value is in hundredths.
RiskScores(scores, conf) ==
    {[composite_score   |-> c \div 100,
      rain_score        |-> r,
      temperature_score |-> t,
      wind_score        |-> w,
      visibility_score  |-> v,
      confidence        |-> conf.level,
      confidence_value  |-> cv] :
        c \in RoundChoices(CompositeScore(scores[1], scores[2], scores[3],
                                          scores[4]), 10000),
        r \in RoundChoices(scores[1], 100),
        t \in RoundChoices(scores[2], 100),
        w \in RoundChoices(scores[3], 100),
        v \in RoundChoices(scores[4], 100),
        cv \in RoundHundredths(conf.value)}

\* The RiskScore objects the call can return.
calculate_composite_risk_score(hourly_data, current_data, google_data) ==
    RiskScores(FactorScores(hourly_data),
               calculate_confidence(hourly_data, current_data, google_data))

-----------------------------------------------------------------------------
(* app/core/risk.py: the band and the verdict of a composite score.        *)

\* The bands with each boundary value counted into the lower band.
get_risk_band_strict(score) ==
    IF score > Points(80) THEN <<"Very High", "red">>
    ELSE IF score > Points(60) THEN <<"High", "orange">>
    ELSE IF score > Points(40) THEN <<"Moderate", "yellow">>
    ELSE IF score > Points(20) THEN <<"Low", "lightgreen">>
    ELSE <<"Very Low", "green">>

\* The (band, colour) pair of a score.
get_risk_band(score) ==
    IF score >= Points(80) THEN <<"Very High", "red">>
    ELSE IF score >= Points(60) THEN <<"High", "orange">>
    ELSE IF score >= Points(40) THEN <<"Moderate", "yellow">>
    ELSE IF score >= Points(20) THEN <<"Low", "lightgreen">>
    ELSE <<"Very Low", "green">>

\* The phrasing chosen at the thresholds of the bands.
VerdictPhraseByBand(score) ==
    IF score >= Points(80) THEN "High risk of weather disruption during "
    ELSE IF score >= Points(60) THEN "Moderate weather risk during "
    ELSE IF score >= Points(40) THEN "Some weather concerns during "
    ELSE "Good weather conditions expected during "

\* The fixed text of the verdict's f-string.
VerdictPhrase(score) ==
    IF score >= Points(70) THEN "High risk of weather disruption during "
    ELSE IF score >= Points(50) THEN "Moderate weather risk during "
    ELSE IF score >= Points(30) THEN "Some weather concerns during "
    ELSE "Good weather conditions expected during "

\* f"<phrase> during {time_window}" (the band it computes first is not used).
get_risk_verdict(score, tw) == VerdictPhrase(score) \o tw


-----------------------------------------------------------------------------
(* The queries and the provider's hours.                                   *)

TimeWindows == {"Morning", "Afternoon", "Evening", "Night", "night"}

\* target_date: the end of a year, the day before a leap day and a leap day at
\* midnight (as the front end builds it), and one carrying a time of day.
TargetDates ==
    {DateTime(2023, 12, 31, 0, 0, 0), DateTime(2024, 2, 28, 0, 0, 0),
     DateTime(2024, 2, 29, 0, 0, 0), DateTime(2023, 12, 31, 15, 45, 30)}

\* The calendar day after dt's, by the calendar's rules (no ordinals).
NextDay(dt) ==
    IF dt.day < DaysInMonth(dt.year, dt.month)
    THEN [dt EXCEPT !.day = dt.day + 1]
    ELSE IF dt.month < 12
         THEN [dt EXCEPT !.month = dt.month + 1, !.day = 1]
         ELSE [dt EXCEPT !.year = dt.year + 1, !.month = 1, !.day = 1]

\* Midnight of dt's calendar day, naive.
Midnight(dt) == DateTime(dt.year, dt.month, dt.day, 0, 0, 0)

\* A sample stamped h:00 local time of the zone on the day `day`.
LocalSample(day, h, tz) ==
    ReplaceTzinfo([Midnight(day) EXCEPT !.hour = h], UtcOffsetInForce(tz))

\* The hours the parser can deliver for a query: zone-stamped hours at the
\* window boundaries of the target day and of the next morning, and an hour
\* without offset (what datetime.fromisoformat gives for "2024-02-28T18:00").
SampleTimes(td, tz) ==
    {LocalSample(td, h, tz) : h \in {6, 12, 18, 21}}
    \cup {LocalSample(NextDay(td), 6, tz)}
    \cup {[Midnight(td) EXCEPT !.hour = 18]}

-----------------------------------------------------------------------------
(* The state machine: the provider parser fills the series, the front end  *)
(* asks for the day-part statistics, and the slice is sliced again.        *)

NoStats == NullStats(0)

Init ==
    /\ times = <<>>
    /\ data = <<>>
    /\ target_date \in TargetDates
    /\ time_window \in TimeWindows
    /\ timezone_str \in Timezones
    /\ pc = "input"
    /\ window = <<>>
    /\ sliceRes = Returned(<<>>, <<>>)
    /\ statsRes = NoStats
    /\ resliceRes = Returned(<<>>, <<>>)
    /\ riskCall = [fn |-> "none"]
    /\ riskRes = 0
    /\ frames = <<>>

\* open_meteo.py: times.append(datetime.fromisoformat(...))
ParseTime ==
    /\ pc = "input"
    /\ Len(times) < MaxLen
    /\ \E t \in SampleTimes(target_date, timezone_str) :
           times' = Append(times, t)
    /\ UNCHANGED <<data, target_date, time_window, timezone_str, pc, window,
                   sliceRes, statsRes, resliceRes, riskCall, riskRes, frames>>

\* A further reading of the field; the field may stay shorter than the times.
ParseValue ==
    /\ pc = "input"
    /\ Len(data) < Len(times)
    /\ \E v \in Readings : data' = Append(data, v)
    /\ UNCHANGED <<times, target_date, time_window, timezone_str, pc, window,
                   sliceRes, statsRes, resliceRes, riskCall, riskRes, frames>>

\* get_daypart_stats(times, data, target_date, time_window, timezone_str),
\* the call to slice_hourly_data_for_window it makes included.
GetDaypartStats ==
    /\ pc = "input"
    /\ pc' = "stats"
    /\ window' = WindowComputed(times, data, target_date, time_window,
                                timezone_str)
    /\ sliceRes' = slice_hourly_data_for_window(times, data, target_date,
                                                time_window, timezone_str)
    /\ statsRes' = get_daypart_stats(times, data, target_date, time_window,
                                     timezone_str)
    /\ UNCHANGED <<times, data, target_date, time_window, timezone_str,
                   resliceRes, riskCall, riskRes, frames>>

\* The slice handed to slice_hourly_data_for_window again, same parameters.
Reslice ==
    /\ pc = "stats"
    /\ ~sliceRes.raised
    /\ pc' = "resliced"
    /\ resliceRes' = slice_hourly_data_for_window(sliceRes.times, sliceRes.data,
                                                  target_date, time_window,
                                                  timezone_str)
    /\ UNCHANGED <<times, data, target_date, time_window, timezone_str,
                   window, sliceRes, statsRes, riskCall, riskRes, frames>>

Next == ParseTime \/ ParseValue \/ GetDaypartStats \/ Reslice

Spec == Init /\ [][Next]_vars

-----------------------------------------------------------------------------
(* The risk engine as a state machine: one call of a scorer, of            *)
(* calculate_confidence or of calculate_composite_risk_score, on series    *)
(* drawn from readings around the thresholds.                              *)

\* All series of at most n readings from S.
SeriesUpTo(S, n) == UNION {[1..k -> S] : k \in 0..n}

PrecipReadings   == {None, Some(1), Some(2), Some(10), Some(40), Some(50)}

ProbReadings     == {None, Some(-100), Some(300), Some(500), Some(700),
                     Some(800)}

ApparentReadings == {None, Some(50), Some(179), Some(180), Some(250),
                     Some(320), Some(321), Some(450)}

SpeedReadings    == {None, Some(200), Some(300), Some(310), Some(500),
                     Some(600)}

GustReadings     == {None, Some(-50), Some(100), Some(350), Some(550),
                     Some(600)}

UvReadings       == {None, Some(60), Some(70)}

DayFlags         == {None, Some(TRUE), Some(FALSE)}

CloudSeries ==
    {<<>>, <<None>>, <<Some(500)>>, <<Some(700)>>, <<Some(900)>>,
     <<Some(700), Some(900)>>, <<None, Some(900)>>}

VisibilitySeries ==
    {<<>>, <<None>>, <<Some(30)>>, <<Some(70)>>, <<Some(150)>>,
     <<Some(150), Some(30)>>, <<None, Some(70)>>}

Hourly(present, t2m, apparent, precip, prob, speed, gust, cloud, vis, day) ==
    [present                   |-> present,
     temperature_2m            |-> t2m,
     apparent_temperature      |-> apparent,
     precipitation             |-> precip,
     precipitation_probability |-> prob,
     wind_speed_10m            |-> speed,
     wind_gusts_10m            |-> gust,
     cloud_cover               |-> cloud,
     visibility                |-> vis,
     is_day                    |-> day]

\* hourly_data = None.
NoHourly == Hourly(FALSE, <<>>, <<>>, <<>>, <<>>, <<>>, <<>>, <<>>, <<>>, <<>>)

\* A key field: empty, all absent, present, or partly present.
KeyFieldSeries == {<<>>, <<None>>, <<Some(200)>>, <<None, Some(200)>>}

\* Hourly records for calculate_confidence: the key fields vary.
ConfidenceHourlies ==
    {NoHourly} \cup
    {Hourly(TRUE, t, <<>>, p, q, s, <<>>, <<>>, <<>>, <<>>) :
        t \in KeyFieldSeries, p \in KeyFieldSeries,
        q \in KeyFieldSeries, s \in KeyFieldSeries}

\* Hourly records for the composite score: every field empty or with data.
CompositeHourlies ==
    {NoHourly} \cup
    {Hourly(TRUE, t, a, p, q, s, g, c, v, d) :
        t \in {<<>>, <<None>>, <<Some(200)>>},
        a \in {<<>>, <<Some(250)>>, <<Some(175)>>, <<Some(50), Some(450)>>},
        p \in {<<>>, <<None>>, <<Some(50)>>},
        q \in {<<>>, <<None>>, <<Some(800)>>, <<Some(301)>>},
        s \in {<<>>, <<None>>, <<Some(600)>>},
        g \in {<<>>, <<Some(600)>>, <<Some(133)>>},
        c \in {<<>>, <<Some(900)>>},
        v \in {<<>>, <<Some(30)>>},
        d \in {<<>>, <<Some(TRUE)>>}}

\* Open-Meteo's current conditions: none, without temperature, or 20.0.
CurrentData ==
    {None, Some([temperature_2m |-> None]), Some([temperature_2m |-> Some(200)])}

\* Google's current conditions: none, without temperature, or a temperature
\* 0, 1, 2, 4, 5 or 10 degrees away from Open-Meteo's.
GoogleData ==
    {None, Some([temperature |-> None])} \cup
    {Some([temperature |-> Some(t)]) : t \in {200, 210, 180, 220, 240, 250, 300}}

NoCall == [fn |-> "none"]

RiskIdle == riskCall = NoCall /\ riskRes = 0

slicerVars == <<times, data, target_date, time_window, timezone_str,
                pc, window, sliceRes, statsRes, resliceRes>>

RiskInit ==
    /\ times = <<>>
    /\ data = <<>>
    /\ target_date = DateTime(2023, 12, 31, 0, 0, 0)
    /\ time_window = "Evening"
    /\ timezone_str = "UTC"
    /\ pc = "input"
    /\ window = <<>>
    /\ sliceRes = Returned(<<>>, <<>>)
    /\ statsRes = NoStats
    /\ resliceRes = Returned(<<>>, <<>>)
    /\ RiskIdle
    /\ frames = <<>>

CallRainScore ==
    /\ riskCall = NoCall
    /\ \E p \in SeriesUpTo(PrecipReadings, MaxLen),
          q \in SeriesUpTo(ProbReadings, MaxLen),
          d \in {<<>>, <<Some(TRUE)>>} :
           /\ riskCall' = [fn |-> "rain", precipitation |-> p,
                           precipitation_prob |-> q, is_day |-> d]
           /\ riskRes' = calculate_rain_score(p, q, d)
    /\ UNCHANGED <<slicerVars, frames>>

CallTemperatureScore ==
    /\ riskCall = NoCall
    /\ \E a \in SeriesUpTo(ApparentReadings, MaxLen),
          d \in SeriesUpTo(DayFlags, 1) :
           /\ riskCall' = [fn |-> "temperature", apparent_temps |-> a,
                           is_day |-> d]
           /\ riskRes' = calculate_temperature_score(a, d)
    /\ UNCHANGED <<slicerVars, frames>>

CallWindScore ==
    /\ riskCall = NoCall
    /\ \E s \in SeriesUpTo(SpeedReadings, MaxLen),
          g \in SeriesUpTo(GustReadings, MaxLen) :
           /\ riskCall' = [fn |-> "wind", wind_speeds |-> s, wind_gusts |-> g]
           /\ riskRes' = calculate_wind_score(s, g)
    /\ UNCHANGED <<slicerVars, frames>>

CallVisibilityScore ==
    /\ riskCall = NoCall
    /\ \E c \in CloudSeries, v \in VisibilitySeries,
          u \in SeriesUpTo(UvReadings, MaxLen),
          d \in SeriesUpTo(DayFlags, MaxLen) :
           /\ riskCall' = [fn |-> "visibility", cloud_cover |-> c,
                           visibility |-> v, uv_index |-> u, is_day |-> d]
           /\ riskRes' = calculate_visibility_score(c, v, u, d)
    /\ UNCHANGED <<slicerVars, frames>>

CallConfidence ==
    /\ riskCall = NoCall
    /\ \E h \in ConfidenceHourlies, c \in CurrentData, g \in GoogleData :
           /\ riskCall' = [fn |-> "confidence", hourly_data |-> h,
                           current_data |-> c, google_data |-> g]
           /\ riskRes' = calculate_confidence(h, c, g)
    /\ UNCHANGED <<slicerVars, frames>>

CallCompositeRiskScore ==
    /\ riskCall = NoCall
    /\ \E h \in CompositeHourlies,
          c \in {None, Some([temperature_2m |-> Some(200)])},
          g \in {None, Some([temperature |-> Some(200)]),
                 Some([temperature |-> Some(220)]),
                 Some([temperature |-> Some(230)]),
                 Some([temperature |-> Some(260)])} :
           /\ riskCall' = [fn |-> "composite", hourly_data |-> h,
                           current_data |-> c, google_data |-> g]
           /\ riskRes' \in calculate_composite_risk_score(h, c, g)
    /\ UNCHANGED <<slicerVars, frames>>

\* The scores handed to the band and to the verdict: every tenth of a point
\* from -5.0 to 105.0, in thousandths.
DisplayedScores == {k * 100 : k \in -50..1050}

CallRiskBand ==
    /\ riskCall = NoCall
    /\ \E s \in DisplayedScores :
           /\ riskCall' = [fn |-> "band", score |-> s]
           /\ riskRes' = get_risk_band(s)
    /\ UNCHANGED <<slicerVars, frames>>

CallRiskVerdict ==
    /\ riskCall = NoCall
    /\ \E s \in DisplayedScores, tw \in TimeWindows :
           /\ riskCall' = [fn |-> "verdict", score |-> s, time_window |-> tw]
           /\ riskRes' = get_risk_verdict(s, tw)
    /\ UNCHANGED <<slicerVars, frames>>

RiskNext ==
    \/ CallRainScore
    \/ CallTemperatureScore
    \/ CallWindScore
    \/ CallVisibilityScore
    \/ CallConfidence
    \/ CallCompositeRiskScore
    \/ CallRiskBand
    \/ CallRiskVerdict

RiskSpec == RiskInit /\ [][RiskNext]_vars

-----------------------------------------------------------------------------
(* The front end: app.py analyses a query (place, date, day-part) over the  *)
(* provider's hourly data and then displays the day-part statistics of the *)
(* same query.  The hourly data is the series of timestamps and, of the    *)
(* fields, the gusts (the other fields are empty).                         *)

\* The gust readings of an hour: absent, a breeze, or a hazardous 60 km/h.
GustHours == {None, Some(100), Some(600)}

\* The hourly record the provider returned, with ds as its gusts.
HourlyOfGusts(ds) ==
    Hourly(TRUE, <<>>, <<>>, <<>>, <<>>, <<>>, ds, <<>>, <<>>, <<>>)

\* analyze_weather_risk: the RiskScore objects of a query (only the Google
\* reading and the Open-Meteo current reading are left absent here).
analyze_weather_risk(ts, ds, td, tw, tz) ==
    calculate_composite_risk_score(HourlyOfGusts(ds), None, None)

\* A further gust reading of the hourly data.
ParseGust ==
    /\ pc = "input"
    /\ Len(data) < Len(times)
    /\ \E v \in GustHours : data' = Append(data, v)
    /\ UNCHANGED <<times, target_date, time_window, timezone_str, pc, window,
                   sliceRes, statsRes, resliceRes, riskCall, riskRes, frames>>

\* analyze_weather_risk(place, selected_date, time_window) followed by the
\* display of the gust statistics of the selected day-part.
AnalyzeAndDisplay ==
    /\ pc = "input"
    /\ pc' = "analysed"
    /\ riskCall' = [fn |-> "analyze"]
    /\ riskRes' \in analyze_weather_risk(times, data, target_date, time_window,
                                         timezone_str)
    /\ window' = WindowComputed(times, data, target_date, time_window,
                                timezone_str)
    /\ sliceRes' = slice_hourly_data_for_window(times, data, target_date,
                                                time_window, timezone_str)
    /\ statsRes' = get_daypart_stats(times, data, target_date, time_window,
                                     timezone_str)
    /\ UNCHANGED <<times, data, target_date, time_window, timezone_str,
                   resliceRes, frames>>

AnalysisNext == ParseTime \/ ParseGust \/ AnalyzeAndDisplay

AnalysisSpec == Init /\ [][AnalysisNext]_vars

-----------------------------------------------------------------------------
(* Concurrent calls: two sessions of the front end work on the same hourly *)
(* data, each running the slicer for its own day-part or the composite     *)
(* score, statement by statement.  A frame holds the locals of one call:   *)
(* its position, the window, the loop index, the lists filtered_times and  *)
(* filtered_data it builds, the scores, and its result.                    *)

Calls == {1, 2}

\* The day-parts the concurrent queries ask for.
ConcurrentWindows == {"Afternoon", "Night"}

\* The hours of the shared hourly data: noon and 21:00 of the target day in
\* the zone, and an hour without offset.
ConcurrentTimes ==
    {LocalSample(DateTime(2023, 12, 31, 0, 0, 0), 12, "UTC"),
     LocalSample(DateTime(2023, 12, 31, 0, 0, 0), 21, "UTC"),
     [DateTime(2023, 12, 31, 0, 0, 0) EXCEPT !.hour = 18]}

IdleFrame ==
    [kind |-> "none", pc |-> "idle", tw |-> "", seen |-> <<>>, i |-> 0,
     window |-> <<>>, filtered_times |-> <<>>, filtered_data |-> <<>>,
     scores |-> <<>>, result |-> <<>>, overlapped |-> FALSE]

\* Is another call than p between its first and its last statement?
OtherRunning(p) ==
    \E q \in Calls \ {p} : frames[q].pc \notin {"idle", "done"}

\* The frames after call p began while another call was running.
MarkOverlap(fs, p) ==
    IF OtherRunning(p)
    THEN [q \in Calls |->
             IF q = p \/ frames[q].pc \notin {"idle", "done"}
             THEN [fs[q] EXCEPT !.overlapped = TRUE]
             ELSE fs[q]]
    ELSE fs

\* One list pair for all calls (a module-level accumulator).
ListsShared(p) == 1

\* The frame holding the lists call p builds: its own (`filtered_times = []`
\* binds a new list in every call).
ListsOf(p) == p

ConcInit ==
    /\ times \in SeriesUpTo(ConcurrentTimes, MaxLen)
    /\ data \in SeriesUpTo({None, Some(600)}, MaxLen)
    /\ Len(data) <= Len(times)
    /\ target_date = DateTime(2023, 12, 31, 0, 0, 0)
    /\ time_window = "Evening"
    /\ timezone_str = "UTC"
    /\ pc = "input"
    /\ window = <<>>
    /\ sliceRes = Returned(<<>>, <<>>)
    /\ statsRes = NoStats
    /\ resliceRes = Returned(<<>>, <<>>)
    /\ RiskIdle
    /\ frames = [p \in Calls |-> IdleFrame]

\* slice_hourly_data_for_window, lines 49-71: the empty-input return, or the
\* window and two new empty lists.
SliceBegin(p) ==
    /\ frames[p].pc = "idle"
    /\ \E tw \in ConcurrentWindows :
           LET called == [IdleFrame EXCEPT !.kind = "slice", !.tw = tw,
                                           !.seen = <<times, data>>]
               begun  ==
                   IF EmptyInput(times, data)
                   THEN [frames EXCEPT ![p] =
                            [called EXCEPT !.pc = "done",
                                           !.result = Returned(<<>>, <<>>)]]
                   ELSE LET fs == [frames EXCEPT ![p] =
                                      [called EXCEPT
                                          !.pc = "loop", !.i = 1,
                                          !.window = WindowBounds(
                                              target_date, tw, timezone_str)]]
                        IN  [fs EXCEPT ![ListsOf(p)].filtered_times = <<>>,
                                       ![ListsOf(p)].filtered_data = <<>>]
           IN  frames' = MarkOverlap(begun, p)
    /\ UNCHANGED <<slicerVars, riskCall, riskRes>>

\* One iteration of the loop of lines 73-79 (or its end).
SliceLoop(p) ==
    /\ frames[p].pc = "loop"
    /\ LET f == frames[p]
           i == f.i
       IN  frames' =
               IF i > Len(times)
               THEN [frames EXCEPT ![p].pc = "return"]
               ELSE IF ~Comparable(times[i], f.window[1])
               THEN [frames EXCEPT ![p].pc = "done", ![p].result = Raised]
               ELSE IF InWindow(times[i], f.window[1], f.window[2])
               THEN LET fs == [frames EXCEPT ![p].i = i + 1]
                    IN  [fs EXCEPT
                            ![ListsOf(p)].filtered_times = Append(@, times[i]),
                            ![ListsOf(p)].filtered_data =
                                Append(@, ValueAt(data, i))]
               ELSE [frames EXCEPT ![p].i = i + 1]
    /\ UNCHANGED <<slicerVars, riskCall, riskRes>>

\* return filtered_times, filtered_data
SliceReturn(p) ==
    /\ frames[p].pc = "return"
    /\ frames' = [frames EXCEPT
                     ![p].pc = "done",
                     ![p].result =
                         Returned(frames[ListsOf(p)].filtered_times,
                                  frames[ListsOf(p)].filtered_data)]
    /\ UNCHANGED <<slicerVars, riskCall, riskRes>>

\* calculate_composite_risk_score is entered.
CompositeBegin(p) ==
    /\ frames[p].pc = "idle"
    /\ frames' = MarkOverlap(
                     [frames EXCEPT ![p] =
                         [IdleFrame EXCEPT !.kind = "composite",
                                           !.pc = "scores",
                                           !.seen = <<times, data>>]], p)
    /\ UNCHANGED <<slicerVars, riskCall, riskRes>>

\* Lines 265-295: the four scorers.
CompositeScores(p) ==
    /\ frames[p].pc = "scores"
    /\ frames' = [frames EXCEPT
                     ![p].pc = "confidence",
                     ![p].scores = FactorScores(HourlyOfGusts(data))]
    /\ UNCHANGED <<slicerVars, riskCall, riskRes>>

\* Lines 297-318: the weighted sum, the confidence and the RiskScore.
CompositeReturn(p) ==
    /\ frames[p].pc = "confidence"
    /\ \E r \in RiskScores(frames[p].scores,
                           calculate_confidence(HourlyOfGusts(data),
                                                None, None)) :
           frames' = [frames EXCEPT ![p].pc = "done", ![p].result = r]
    /\ UNCHANGED <<slicerVars, riskCall, riskRes>>

\* The session asks again.
CallAgain(p) ==
    /\ frames[p].pc = "done"
    /\ frames' = [frames EXCEPT ![p] = IdleFrame]
    /\ UNCHANGED <<slicerVars, riskCall, riskRes>>

ConcNext ==
    \E p \in Calls :
        \/ SliceBegin(p)
        \/ SliceLoop(p)
        \/ SliceReturn(p)
        \/ CompositeBegin(p)
        \/ CompositeScores(p)
        \/ CompositeReturn(p)
        \/ CallAgain(p)

ConcSpec == ConcInit /\ [][ConcNext]_vars

-----------------------------------------------------------------------------
(* Vocabulary of the properties.                                           *)

Called == pc # "input"

SameDay(a, b) == a.year = b.year /\ a.month = b.month /\ a.day = b.day

InSeq(x, s) == \E k \in 1..Len(s) : s[k] = x

\* The indices of the timestamps start_datetime <= times[i] < end_datetime.
Selected(ts, w) ==
    {i \in 1..Len(ts) :
        UtcSeconds(w[1]) <= UtcSeconds(ts[i])
        /\ UtcSeconds(ts[i]) < UtcSeconds(w[2])}

\* The k-th selected index in input order.
KthOf(idx, k) == CHOOSE i \in idx : Cardinality({j \in idx : j < i}) = k - 1

NonNull(fd) == {k \in 1..Len(fd) : fd[k] # None}

RecognisedWindows == {"Morning", "Afternoon", "Evening", "Night"}

-----------------------------------------------------------------------------
\* C1: for a series of timestamps with a value each, the slicer returns
\* exactly the pairs (times[i], values[i]) with
\* start_datetime <= times[i] < end_datetime, in input order, nothing added.
C1_ExactSelection ==
    (Called /\ times # <<>> /\ Len(data) = Len(times)) =>
        LET w   == WindowBounds(target_date, time_window, timezone_str)
            idx == Selected(times, w)
        IN  /\ ~sliceRes.raised
            /\ Len(sliceRes.times) = Cardinality(idx)
            /\ Len(sliceRes.data) = Cardinality(idx)
            /\ \A k \in 1..Cardinality(idx) :
                   /\ sliceRes.times[k] = times[KthOf(idx, k)]
                   /\ sliceRes.data[k] = data[KthOf(idx, k)]

\* C2: the window is anchored at the zone's real wall clock, from local
\* midnight of target_date whatever time of day it carries: a sample stamped
\* exactly the day-part's start in the zone is in the slice and one stamped
\* exactly its end is not.
C2_AnchoredAtLocalWallClock ==
    (Called /\ window # <<>> /\ ~sliceRes.raised) =>
        LET b      == get_time_window_bounds(time_window)
            endDay == IF time_window = "Night" THEN NextDay(target_date)
                      ELSE target_date
            atStart == LocalSample(target_date, b[1].hour, timezone_str)
            atEnd   == LocalSample(endDay, b[2].hour, timezone_str)
        IN  /\ InSeq(atStart, times) => InSeq(atStart, sliceRes.times)
            /\ ~InSeq(atEnd, sliceRes.times)

\* C3: no call of the slicer or of get_daypart_stats raises, whatever the
\* series hold (calculate_composite_risk_score has no raising path of its own).
C3_NeverRaises ==
    ~sliceRes.raised /\ ~statsRes.raised /\ ~resliceRes.raised

\* C4: Morning, Afternoon and Evening end after they start, both bounds on
\* target_date's calendar day; Night starts 21:00 on target_date and ends
\* 06:00 on the next calendar day, across the end of a month or year too.
C4_WindowDays ==
    (Called /\ window # <<>>) =>
        LET s == window[1]
            e == window[2]
        IN  /\ time_window \in {"Morning", "Afternoon", "Evening"} =>
                   /\ UtcSeconds(e) > UtcSeconds(s)
                   /\ SameDay(s, target_date)
                   /\ SameDay(e, target_date)
            /\ time_window = "Night" =>
                   /\ SameDay(s, target_date)
                   /\ s.hour = 21 /\ s.minute = 0
                   /\ SameDay(e, NextDay(target_date))
                   /\ e.hour = 6 /\ e.minute = 0

\* A Night window was computed for the last day of the year: it ends in the
\* next year.
C4_Witness ==
    /\ Called /\ window # <<>> /\ time_window = "Night"
    /\ target_date.month = 12 /\ target_date.day = 31
    /\ window[2].year = target_date.year + 1

\* The slices a timestamp of day D may fall in.
FiveWindows(td) ==
    {<<td, "Morning">>, <<td, "Afternoon">>, <<td, "Evening">>,
     <<td, "Night">>, <<NextDay(td), "Morning">>}

SliceTimes(q) ==
    slice_hourly_data_for_window(times, data, q[1], q[2], timezone_str).times

\* C5: a timestamp is in at most one of Morning(D), Afternoon(D), Evening(D),
\* Night(D), Morning(D+1); the 21:00 sample of D is in Night(D) and not in
\* Evening(D), the 06:00 sample of D+1 in Morning(D+1) and not in Night(D); the
\* four windows of D leave no sample of [D 06:00, D+1 06:00) out.
C5_NoDoubleCounting ==
    (Called /\ window # <<>> /\ ~sliceRes.raised) =>
        LET at21     == LocalSample(target_date, 21, timezone_str)
            next06   == LocalSample(NextDay(target_date), 6, timezone_str)
            ofDay    == {LocalSample(target_date, h, timezone_str) :
                            h \in {6, 12, 18, 21}}
            fourOfD  == FiveWindows(target_date)
                        \ {<<NextDay(target_date), "Morning">>}
        IN  /\ \A i \in 1..Len(times) :
                   Cardinality({q \in FiveWindows(target_date) :
                                   InSeq(times[i], SliceTimes(q))}) <= 1
            /\ (time_window = "Night" /\ InSeq(at21, times)) =>
                   InSeq(at21, sliceRes.times)
            /\ time_window = "Evening" => ~InSeq(at21, sliceRes.times)
            /\ time_window = "Night" => ~InSeq(next06, sliceRes.times)
            /\ InSeq(next06, times) =>
                   InSeq(next06, SliceTimes(<<NextDay(target_date), "Morning">>))
            /\ \A i \in 1..Len(times) :
                   times[i] \in ofDay =>
                       \E q \in fourOfD : InSeq(times[i], SliceTimes(q))

\* C6: with a value series of any length from 0 to len(times), the slicer does
\* not raise and every in-window timestamp at index i is in the slice, beside
\* values[i] when there is one and beside None otherwise.
C6_ShortValuesTolerated ==
    (Called /\ Len(data) <= Len(times)) =>
        LET w == WindowBounds(target_date, time_window, timezone_str)
        IN  /\ ~sliceRes.raised
            /\ \A i \in Selected(times, w) :
                   \E k \in 1..Len(sliceRes.times) :
                       /\ sliceRes.times[k] = times[i]
                       /\ sliceRes.data[k] = ValueAt(data, i)

\* C7: slicing is idempotent: the slice, sliced again with the same
\* target_date, day-part and timezone, comes back unchanged.
C7_Idempotent ==
    pc = "resliced" =>
        /\ ~resliceRes.raised
        /\ resliceRes.times = sliceRes.times
        /\ resliceRes.data = sliceRes.data

\* A slice that dropped a timestamp and padded a missing value was re-sliced.
C7_Witness ==
    /\ pc = "resliced"
    /\ sliceRes.times # <<>>
    /\ Len(sliceRes.times) < Len(times)
    /\ Len(data) < Len(times)
    /\ InSeq(None, sliceRes.data)

\* C8: a day-part name other than the four resolves to 18:00-21:00 and slices
\* exactly as Evening does, within target_date's day.
C8_UnrecognisedIsEvening ==
    (Called /\ time_window \notin RecognisedWindows) =>
        /\ get_time_window_bounds(time_window) = <<EVENING_START, EVENING_END>>
        /\ sliceRes = slice_hourly_data_for_window(times, data, target_date,
                                                   "Evening", timezone_str)
        /\ window = WindowComputed(times, data, target_date, "Evening",
                                   timezone_str)
        /\ window # <<>> =>
               SameDay(window[1], target_date) /\ SameDay(window[2], target_date)

\* A query named "night" returned a slice that kept one sample and dropped
\* another.
C8_Witness ==
    /\ Called /\ time_window = "night"
    /\ sliceRes.times # <<>>
    /\ Len(sliceRes.times) < Len(times)

\* The aggregates are those of the present values of the slice: mean is
\* sum / count, min and max its smallest and largest present value.
AggregatesOfPresent ==
    LET fd      == sliceRes.data
        present == {fd[k][1] : k \in NonNull(fd)}
    IN  /\ statsRes.mean # None /\ statsRes.sum # None
        /\ statsRes.min # None /\ statsRes.max # None
        /\ statsRes.mean[1][1] * statsRes.count
               = statsRes.sum[1] * statsRes.mean[1][2]
        /\ statsRes.min[1] \in present /\ statsRes.max[1] \in present
        /\ \A v \in present : statsRes.min[1] <= v /\ v <= statsRes.max[1]

\* C9 as stated: count is the number of non-null values of the slice, and
\* whenever count > 0 the mean is sum / count, min and max the smallest and
\* largest non-null value.
C9_CountIsNonNull ==
    (Called /\ ~statsRes.raised) =>
        /\ statsRes.count = Cardinality(NonNull(sliceRes.data))
        /\ statsRes.count > 0 => AggregatesOfPresent

\* C9 as amended: count is the number of non-null values of the slice unless
\* the slice is non-empty with every value absent, where count is the slice
\* length; whenever the slice has a non-null value the mean is sum / count,
\* min and max the smallest and largest non-null value.
C9_CountAndMean ==
    (Called /\ ~statsRes.raised) =>
        LET fd == sliceRes.data
        IN  /\ NonNull(fd) # {} => statsRes.count = Cardinality(NonNull(fd))
            /\ NonNull(fd) = {} => statsRes.count = Len(fd)
            /\ NonNull(fd) # {} => AggregatesOfPresent

\* Statistics over a slice with an absent and a present value.
C9_Witness ==
    /\ Called /\ ~statsRes.raised
    /\ InSeq(None, sliceRes.data)
    /\ statsRes.mean # None
    /\ statsRes.count = 1 /\ Len(sliceRes.data) = 2

AllNull ==
    /\ statsRes.mean = None /\ statsRes.min = None
    /\ statsRes.max = None /\ statsRes.sum = None

\* C10 as stated: count <= len(sliced_values), and count = 0 exactly when
\* mean, min, max and sum are all null.
C10_ZeroIffNull ==
    (Called /\ ~statsRes.raised) =>
        /\ statsRes.count <= Len(sliceRes.data)
        /\ statsRes.count = 0 <=> AllNull

\* C10 as amended: count <= len(sliced_values); count = 0 exactly when the
\* slice is empty, and then mean, min, max and sum are all null; they are all
\* null exactly when the slice has no non-null value.
C10_NullIffNoValue ==
    (Called /\ ~statsRes.raised) =>
        /\ statsRes.count <= Len(sliceRes.data)
        /\ statsRes.count = 0 <=> sliceRes.data = <<>>
        /\ statsRes.count = 0 => AllNull
        /\ AllNull <=> NonNull(sliceRes.data) = {}

\* Statistics over a non-empty slice whose values are all absent.
C10_Witness ==
    /\ Called /\ ~statsRes.raised
    /\ sliceRes.data # <<>>
    /\ NonNull(sliceRes.data) = {}
    /\ statsRes.count = Len(sliceRes.data)

\* C11: get_daypart_stats tells "no window coverage" from "no data": with no
\* timestamp in the window it reports count 0 and null aggregates; with a
\* timestamp in the window and every value there absent (None, or missing
\* because the value series is shorter or empty) it reports the number of
\* in-window samples as count, and null aggregates.
C11_CoverageVsNoData ==
    (Called /\ ~statsRes.raised) =>
        LET w   == WindowBounds(target_date, time_window, timezone_str)
            idx == Selected(times, w)
        IN  /\ idx = {} => (statsRes.count = 0 /\ AllNull)
            /\ (idx # {} /\ \A i \in idx : ValueAt(data, i) = None) =>
                   (statsRes.count = Cardinality(idx) /\ AllNull)

-----------------------------------------------------------------------------
(* Vocabulary of the risk properties.                                      *)

Scorers == {"rain", "temperature", "wind", "visibility"}

\* The present readings of a series, as a set.
Present(s) == {s[k][1] : k \in NonNull(s)}

HasData(s) == NonNull(s) # {}

\* The largest and the smallest present reading; HasData(s) is required.
Peak(s) == CHOOSE x \in Present(s) : \A y \in Present(s) : y <= x

Trough(s) == CHOOSE x \in Present(s) : \A y \in Present(s) : x <= y

\* C12: each of the four factor scores lies in [0, 100] for every input
\* series, negative or out-of-range readings and empty series included.
C12_ScoresInRange ==
    riskCall.fn \in Scorers => (0 <= riskRes /\ riskRes <= Points(100))

\* C13: insufficient data yields the zero sentinel: a scorer whose data series
\* are all empty or all absent returns 0 (whatever the is-day flags), and with
\* no hourly data at all calculate_composite_risk_score returns rain,
\* temperature, wind, visibility and composite scores all equal to 0.
C13_ZeroSentinel ==
    /\ (riskCall.fn = "rain" /\ ~HasData(riskCall.precipitation)
            /\ ~HasData(riskCall.precipitation_prob)) => riskRes = 0
    /\ (riskCall.fn = "temperature" /\ ~HasData(riskCall.apparent_temps)) =>
           riskRes = 0
    /\ (riskCall.fn = "wind" /\ ~HasData(riskCall.wind_speeds)
            /\ ~HasData(riskCall.wind_gusts)) => riskRes = 0
    /\ (riskCall.fn = "visibility" /\ ~HasData(riskCall.cloud_cover)
            /\ ~HasData(riskCall.visibility)
            /\ ~HasData(riskCall.uv_index)) => riskRes = 0
    /\ (riskCall.fn = "composite" /\ ~riskCall.hourly_data.present) =>
           /\ riskRes.rain_score = 0
           /\ riskRes.temperature_score = 0
           /\ riskRes.wind_score = 0
           /\ riskRes.visibility_score = 0
           /\ riskRes.composite_score = 0

\* A visibility call whose cloud series holds only an absent reading, with no
\* visibility and no UV data, has returned 0.
C13_Witness ==
    /\ riskCall.fn = "visibility"
    /\ riskCall.cloud_cover = <<None>>
    /\ ~HasData(riskCall.visibility)
    /\ ~HasData(riskCall.uv_index)
    /\ riskRes = 0

\* C14: when both series hold a present sample, the rain score equals
\* 0.6 * intensity + 0.4 * probability, where intensity is 100 if the peak
\* precipitation is >= 4.0 mm/h, 70 if >= 1.0, 40 if >= 0.2, else 0, and
\* probability is 100 if the peak probability is >= 70 %, 60 if >= 50 %, else
\* the peak probability times 0.6; the peaks are over present samples only.
C14_RainFormula ==
    (riskCall.fn = "rain" /\ HasData(riskCall.precipitation)
         /\ HasData(riskCall.precipitation_prob)) =>
        LET peak      == Peak(riskCall.precipitation)
            peak_prob == Peak(riskCall.precipitation_prob)
            intensity == IF peak >= 40 THEN 100
                         ELSE IF peak >= 10 THEN 70
                         ELSE IF peak >= 2 THEN 40
                         ELSE 0
            \* hundredths of a point: peak_prob tenths of a percent times 0.6
            probability100 == IF peak_prob >= 700 THEN 10000
                              ELSE IF peak_prob >= 500 THEN 6000
                              ELSE peak_prob * 6
        IN  riskRes = 600 * intensity + 4 * probability100

\* Peak 5.0 mm/h beside an absent sample, peak probability 80 %: score 100.
C14_Witness ==
    /\ riskCall.fn = "rain"
    /\ riskCall.precipitation = <<None, Some(50)>>
    /\ HasData(riskCall.precipitation_prob)
    /\ Peak(riskCall.precipitation_prob) = 800
    /\ riskRes = Points(100)

\* C15: the temperature score is min(5 * (18 - min), 50) when the minimum
\* present apparent temperature is below 18, plus min(5 * (max - 32), 50)
\* when the maximum is above 32, the sum capped at 100; a series that stays
\* in [18, 32] scores 0; the is-day flags do not influence the score.
C15_TemperatureFormula ==
    (riskCall.fn = "temperature" /\ HasData(riskCall.apparent_temps)) =>
        LET lo   == Trough(riskCall.apparent_temps)
            hi   == Peak(riskCall.apparent_temps)
            cold == IF lo < 180 THEN MinOf(500 * (180 - lo), 50000) ELSE 0
            hot  == IF hi > 320 THEN MinOf(500 * (hi - 320), 50000) ELSE 0
        IN  /\ riskRes = MinOf(cold + hot, 100000)
            /\ (\A t \in Present(riskCall.apparent_temps) :
                    180 <= t /\ t <= 320) => riskRes = 0
            /\ riskRes = calculate_temperature_score(riskCall.apparent_temps,
                                                     <<>>)

\* A series with 17.9 and 32.1 degrees and a night flag: 0.5 + 0.5 points.
C15_Witness ==
    /\ riskCall.fn = "temperature"
    /\ Present(riskCall.apparent_temps) = {179, 321}
    /\ riskCall.is_day = <<Some(FALSE)>>
    /\ riskRes = Points(1)

\* C16: the wind score is the sum, capped at 100, of a speed part
\* min((peak_speed - 30) * 2, 40) applied only when the peak sustained speed
\* is above 30 km/h, and a gust part 60 if the peak gust is >= 55 km/h, 40 if
\* >= 35 km/h, else min(peak_gust * 0.8, 30); a part whose series holds no
\* present sample contributes 0.
C16_WindFormula ==
    riskCall.fn = "wind" =>
        LET speed_part ==
                IF HasData(riskCall.wind_speeds)
                       /\ Peak(riskCall.wind_speeds) > 300
                THEN MinOf((Peak(riskCall.wind_speeds) - 300) * 200, 40000)
                ELSE 0
            gust_part ==
                IF ~HasData(riskCall.wind_gusts) THEN 0
                ELSE IF Peak(riskCall.wind_gusts) >= 550 THEN 60000
                ELSE IF Peak(riskCall.wind_gusts) >= 350 THEN 40000
                ELSE MinOf(Peak(riskCall.wind_gusts) * 80, 30000)
        IN  riskRes = MinOf(speed_part + gust_part, 100000)

\* Peak gust 60 km/h with peak speed 20 km/h gives 60.
C16_Witness ==
    /\ riskCall.fn = "wind"
    /\ HasData(riskCall.wind_speeds)
    /\ HasData(riskCall.wind_gusts)
    /\ Peak(riskCall.wind_speeds) = 200
    /\ Peak(riskCall.wind_gusts) = 600
    /\ riskRes = Points(60)

\* The contributions of calculate_visibility_score as C17 words them.
CloudContribution(cloud_cover) ==
    IF ~HasData(cloud_cover) THEN 0
    ELSE LET n     == Cardinality(NonNull(cloud_cover))
             total == SumSeq(ValidData(cloud_cover))
         IN  IF total > 800 * n THEN 50000
             ELSE IF total > 600 * n THEN 30000
             ELSE 0

VisibilityContribution(visibility) ==
    IF ~HasData(visibility) THEN 0
    ELSE IF Trough(visibility) < 50 THEN 40000
    ELSE IF Trough(visibility) < 100 THEN 20000
    ELSE 0

\* There is an hour whose is-day flag is true and whose UV reading is >= 7.
DaytimeHighUv(uv_index, is_day) ==
    \E i \in 1..MinOf(Len(uv_index), Len(is_day)) :
        /\ is_day[i] = Some(TRUE)
        /\ uv_index[i] # None
        /\ uv_index[i][1] >= 70

\* C17: the UV contribution of +30 is added exactly when some hour has a true
\* is-day flag and a UV reading >= 7, whatever the positions of the absent
\* entries of the two series; it is added on top of the cloud contribution
\* (average > 80 gives 50, > 60 gives 30) and of the visibility contribution
\* (minimum < 5 km gives 40, < 10 km gives 20), the sum capped at 100.
C17_UvDaytimeOnly ==
    riskCall.fn = "visibility" =>
        riskRes = MinOf(CloudContribution(riskCall.cloud_cover)
                            + VisibilityContribution(riskCall.visibility)
                            + (IF DaytimeHighUv(riskCall.uv_index,
                                                riskCall.is_day)
                               THEN 30000 ELSE 0),
                        100000)

\* The key fields of an hourly record that hold a present sample.
FieldsWithData(hourly_data) ==
    {k \in 1..4 : HasData(KeyFields(hourly_data)[k])}

\* C18: the data-completeness factor equals the number of the four key fields
\* (temperature, precipitation, precipitation probability, wind speed) with at
\* least one present sample, divided by 4, for every hourly record, records
\* with empty key fields included.
C18_CompletenessOverFour ==
    (riskCall.fn = "confidence" /\ riskCall.hourly_data.present) =>
        riskRes.completeness =
            <<Quotient(Cardinality(FieldsWithData(riskCall.hourly_data)), 4)>>

\* Both current-condition readings exist, each with a temperature.
BothTemperatures(current_data, google_data) ==
    /\ current_data # None
    /\ google_data # None
    /\ current_data[1].temperature_2m # None
    /\ google_data[1].temperature # None

\* C19: the agreement factor is included exactly when both current-condition
\* readings exist with a temperature each: 0.8 if the absolute temperature
\* difference is < 2, 0.6 if < 5 (so exactly 2 gives 0.6), else 0.3 (exactly 5
\* gives 0.3); otherwise no agreement factor enters the mean.
C19_AgreementFactor ==
    riskCall.fn = "confidence" =>
        LET c == riskCall.current_data
            g == riskCall.google_data
        IN  IF BothTemperatures(c, g)
            THEN LET diff == Abs(c[1].temperature_2m[1] - g[1].temperature[1])
                 IN  /\ riskRes.agreement =
                            <<IF diff < 20 THEN <<4, 5>>
                              ELSE IF diff < 50 THEN <<3, 5>>
                              ELSE <<3, 10>>>>
                     /\ riskRes.factors = riskRes.completeness
                            \o riskRes.agreement \o <<<<7, 10>>>>
            ELSE /\ riskRes.agreement = <<>>
                 /\ riskRes.factors = riskRes.completeness \o <<<<7, 10>>>>

\* Open-Meteo reads 20.0 and Google 18.0: a difference of exactly 2 gives 0.6.
C19_Witness ==
    /\ riskCall.fn = "confidence"
    /\ riskCall.current_data = Some([temperature_2m |-> Some(200)])
    /\ riskCall.google_data = Some([temperature |-> Some(180)])
    /\ riskRes.agreement = <<<<3, 5>>>>

\* A factor in sixtieths (the factors' denominators all divide 60).
Sixtieths(f) == f[1] * (60 \div f[2])

\* C20: the confidence value is the arithmetic mean of the factors present
\* (completeness if computed, agreement if computed, and the baseline 0.7,
\* always present), so it lies in [0, 1]; the no-factor fallback is never
\* taken.
C20_MeanOfFactors ==
    riskCall.fn = "confidence" =>
        LET fs == riskRes.factors
            n  == Len(fs)
        IN  /\ fs = riskRes.completeness \o riskRes.agreement \o <<<<7, 10>>>>
            /\ \A k \in 1..n : 60 % fs[k][2] = 0
            /\ riskRes.value[1] * 60 * n =
                   riskRes.value[2] * SumSeq([k \in 1..n |-> Sixtieths(fs[k])])
            /\ 0 <= riskRes.value[1]
            /\ riskRes.value[1] <= riskRes.value[2]
            /\ ~riskRes.fallback

\* Completeness 0, agreement 0.8 and the baseline: the mean of three factors
\* is 0.5, and it is not the fallback.
C20_Witness ==
    /\ riskCall.fn = "confidence"
    /\ Len(riskRes.factors) = 3
    /\ riskRes.completeness = <<<<0, 1>>>>
    /\ riskRes.value = <<1, 2>>
    /\ ~riskRes.fallback

\* C21: in every RiskScore the label agrees with the reported
\* confidence_value: High iff the value is >= 0.8, Medium iff it is >= 0.6 and
\* < 0.8, Low iff it is < 0.6.
C21_LabelAgreesWithValue ==
    riskCall.fn = "composite" =>
        /\ riskRes.confidence = "High" <=> riskRes.confidence_value >= 80
        /\ riskRes.confidence = "Medium" <=>
               (60 <= riskRes.confidence_value /\ riskRes.confidence_value < 80)
        /\ riskRes.confidence = "Low" <=> riskRes.confidence_value < 60

\* Completeness 0.5 and the baseline 0.7: the value is exactly 0.6, Medium.
C21_Witness ==
    /\ riskCall.fn = "composite"
    /\ riskCall.hourly_data.present
    /\ riskRes.confidence_value = 60
    /\ riskRes.confidence = "Medium"

\* 0.40 * rain + 0.25 * temperature + 0.20 * wind + 0.15 * visibility, in
\* hundred-thousandths of a point, of scores in thousandths.
WeightedSum(rain, temperature, wind, visibility) ==
    40 * rain + 25 * temperature + 20 * wind + 15 * visibility

\* The weighted sum of the sub-scores a RiskScore reports.
WeightedReported(r) ==
    WeightedSum(r.rain_score, r.temperature_score, r.wind_score,
                r.visibility_score)

\* The weighted sum of the sub-scores before they are rounded.
WeightedUnrounded(h) ==
    IF ~h.present THEN 0
    ELSE WeightedSum(
             calculate_rain_score(h.precipitation, h.precipitation_probability,
                                  h.is_day),
             calculate_temperature_score(h.apparent_temperature, h.is_day),
             calculate_wind_score(h.wind_speed_10m, h.wind_gusts_10m),
             calculate_visibility_score(h.cloud_cover, h.visibility, <<>>,
                                        h.is_day))

\* C22 (as claimed): in every RiskScore composite_score equals the weighted sum
\* of the sub-scores reported in the same record, rounded to one decimal.
C22_WeightedSumOfReported ==
    riskCall.fn = "composite" =>
        riskRes.composite_score * 100
            \in RoundChoices(WeightedReported(riskRes), 10000)

\* C22 (amended): composite_score equals the weighted sum of the sub-scores
\* before their rounding, rounded to one decimal; it is within 0.1 of the
\* weighted sum of the sub-scores the record reports.
C22_WeightedSumOfUnrounded ==
    riskCall.fn = "composite" =>
        /\ riskRes.composite_score * 100
               \in RoundChoices(WeightedUnrounded(riskCall.hourly_data), 10000)
        /\ Abs(riskRes.composite_score * 100 - WeightedReported(riskRes))
               <= 10000

\* Apparent temperature 17.5 and gust 13.3: the record reports temperature
\* 2.5, wind 10.6 (of 10.64) and composite 2.8 (of 2.753), while the reported
\* sub-scores weigh 2.745.
C22_Witness ==
    /\ riskCall.fn = "composite"
    /\ riskRes.rain_score = 0
    /\ riskRes.temperature_score = 2500
    /\ riskRes.wind_score = 10600
    /\ riskRes.visibility_score = 0
    /\ riskRes.composite_score = 2800

\* C23: get_risk_band gives every score one of the five bands: Very High from
\* 80, High from 60 to below 80, Moderate from 40 to below 60, Low from 20 to
\* below 40 and Very Low below 20; a boundary value belongs to the higher band.
C23_RiskBands ==
    riskCall.fn = "band" =>
        LET s    == riskCall.score
            band == riskRes[1]
        IN  /\ band \in {"Very High", "High", "Moderate", "Low", "Very Low"}
            /\ band = "Very High" <=> s >= 80000
            /\ band = "High" <=> (60000 <= s /\ s < 80000)
            /\ band = "Moderate" <=> (40000 <= s /\ s < 60000)
            /\ band = "Low" <=> (20000 <= s /\ s < 40000)
            /\ band = "Very Low" <=> s < 20000

\* The boundary 60.0 is High.
C23_Witness ==
    /\ riskCall.fn = "band"
    /\ riskCall.score = 60000
    /\ riskRes[1] = "High"

\* The four fixed phrasings of the verdict, by increasing severity.
Phrasings ==
    <<"Good weather conditions expected during ",
      "Some weather concerns during ",
      "Moderate weather risk during ",
      "High risk of weather disruption during ">>

\* The severity (1..4) of a verdict for the day-part tw; 0 if it is none of
\* the four phrasings followed by tw.
SeverityOf(verdict, tw) ==
    IF \E k \in 1..4 : verdict = Phrasings[k] \o tw
    THEN CHOOSE k \in 1..4 : verdict = Phrasings[k] \o tw
    ELSE 0

\* C24: get_risk_verdict returns one of four fixed phrasings, chosen by
\* score >= 70, >= 50, >= 30, else, followed by the day-part name, which is
\* the only part that varies; the phrasing of a higher score is at least as
\* severe.
C24_VerdictPhrasings ==
    riskCall.fn = "verdict" =>
        LET s  == riskCall.score
            tw == riskCall.time_window
            k  == IF s >= 70000 THEN 4
                  ELSE IF s >= 50000 THEN 3
                  ELSE IF s >= 30000 THEN 2
                  ELSE 1
        IN  /\ riskRes = Phrasings[k] \o tw
            /\ \A s2 \in DisplayedScores :
                   s2 >= s =>
                       SeverityOf(get_risk_verdict(s2, tw), tw)
                           >= SeverityOf(riskRes, tw)
            /\ \A tw2 \in TimeWindows :
                   get_risk_verdict(s, tw2) = Phrasings[k] \o tw2

\* A score of exactly 70.0 for the Night: the most severe phrasing.
C24_Witness ==
    /\ riskCall.fn = "verdict"
    /\ riskCall.score = 70000
    /\ riskCall.time_window = "Night"
    /\ riskRes = "High risk of weather disruption during Night"

\* The readings stored beside the in-window timestamps, in input order.
InWindowValues ==
    LET idx == Selected(times,
                        WindowBounds(target_date, time_window, timezone_str))
    IN  [k \in 1..Cardinality(idx) |-> ValueAt(data, KthOf(idx, k))]

\* The RiskScore is the same for every target date and every day-part, and
\* its wind score is the score of all the samples, in the window or not.
RiskIgnoresQuery ==
    pc = "analysed" =>
        /\ \A td \in TargetDates, tw \in TimeWindows :
               riskRes \in analyze_weather_risk(times, data, td, tw,
                                                timezone_str)
        /\ riskRes.wind_score
               \in RoundChoices(calculate_wind_score(<<>>, data), 100)

\* The displayed statistics are those of the in-window samples only.
StatsOfWindowOnly ==
    pc = "analysed" =>
        /\ ~statsRes.raised
        /\ statsRes = StatsOf(InWindowValues)

\* C25: the risk assessment is day-part-agnostic: for fixed hourly data the
\* RiskScore is identical for every target date and day-part, and a hazardous
\* sample outside the selected window counts exactly as one inside it, while
\* get_daypart_stats for the same query depends only on the in-window samples.
C25_DayPartAgnostic == RiskIgnoresQuery /\ StatsOfWindowOnly

\* The hourly record h with its k-th key field replaced by the series s.
WithKeyField(h, k, s) ==
    IF k = 1 THEN [h EXCEPT !.temperature_2m = s]
    ELSE IF k = 2 THEN [h EXCEPT !.precipitation = s]
    ELSE IF k = 3 THEN [h EXCEPT !.precipitation_probability = s]
    ELSE [h EXCEPT !.wind_speed_10m = s]

\* The series s with every sample absent.
AllAbsent(s) == [i \in 1..Len(s) |-> None]

LevelRank(level) ==
    IF level = "High" THEN 3 ELSE IF level = "Medium" THEN 2 ELSE 1

\* The confidence r is no higher than the confidence o, in value and label.
NoHigher(r, o) ==
    FracGE(o.value, r.value) /\ LevelRank(r.level) <= LevelRank(o.level)

\* Blanking the samples of a key field never raises the confidence.
BlankingNeverRaises ==
    (riskCall.fn = "confidence" /\ riskCall.hourly_data.present) =>
        \A k \in 1..4 :
            NoHigher(calculate_confidence(
                         WithKeyField(riskCall.hourly_data, k,
                             AllAbsent(KeyFields(riskCall.hourly_data)[k])),
                         riskCall.current_data, riskCall.google_data),
                     riskRes)

\* Emptying a key field never raises the confidence.
EmptyingNeverRaises ==
    (riskCall.fn = "confidence" /\ riskCall.hourly_data.present) =>
        \A k \in 1..4 :
            NoHigher(calculate_confidence(
                         WithKeyField(riskCall.hourly_data, k, <<>>),
                         riskCall.current_data, riskCall.google_data),
                     riskRes)

\* Removing the hourly record never raises the confidence.
RemovingNeverRaises ==
    (riskCall.fn = "confidence" /\ riskCall.hourly_data.present) =>
        NoHigher(calculate_confidence(NoHourly, riskCall.current_data,
                                      riskCall.google_data),
                 riskRes)

\* C26: absent data never raises confidence: replacing a key field by an
\* all-absent series or by an empty series, or removing the hourly record,
\* yields a confidence value no greater and a label no higher than before.
C26_AbsenceNeverRaisesConfidence ==
    BlankingNeverRaises /\ EmptyingNeverRaises /\ RemovingNeverRaises

\* C27: the engine functions share no mutable state and do not modify their
\* arguments: in every interleaving of the calls of two sessions, each call
\* that has finished has the result of the same call run alone, and the
\* input series are as they were when it began.
C27_CallsIndependent ==
    \A p \in Calls :
        frames[p].pc = "done" =>
            /\ frames[p].seen = <<times, data>>
            /\ frames[p].kind = "slice" =>
                   frames[p].result =
                       slice_hourly_data_for_window(times, data, target_date,
                                                    frames[p].tw, timezone_str)
            /\ frames[p].kind = "composite" =>
                   frames[p].result \in
                       calculate_composite_risk_score(HourlyOfGusts(data),
                                                      None, None)

\* Two slicer calls for different day-parts have run one during the other
\* and each has returned its own, non-empty, slice.
C27_Witness ==
    /\ \A p \in Calls :
           /\ frames[p].pc = "done"
           /\ frames[p].kind = "slice"
           /\ frames[p].overlapped
           /\ ~frames[p].result.raised
           /\ frames[p].result.times # <<>>
    /\ frames[1].tw # frames[2].tw

\* C28: the visibility score produced inside calculate_composite_risk_score
\* never includes the UV contribution: in every RiskScore visibility_score is
\* the cloud and visibility contributions alone and at most 90, and
\* composite_score is at most 98.5, so a composite of 100 is not reached.
C28_CompositeWithoutUv ==
    riskCall.fn = "composite" =>
        /\ riskRes.visibility_score <= Points(90)
        /\ riskRes.composite_score <= 98500
        /\ riskRes.composite_score # Points(100)
        /\ riskCall.hourly_data.present =>
               riskRes.visibility_score =
                   CloudContribution(riskCall.hourly_data.cloud_cover)
                       + VisibilityContribution(riskCall.hourly_data.visibility)

\* Every factor at its largest in daytime hours: rain 100, temperature 100,
\* wind 100, visibility 90, composite 98.5.
C28_Witness ==
    /\ riskCall.fn = "composite"
    /\ riskCall.hourly_data.present
    /\ riskCall.hourly_data.is_day = <<Some(TRUE)>>
    /\ riskRes.rain_score = Points(100)
    /\ riskRes.temperature_score = Points(100)
    /\ riskRes.wind_score = Points(100)
    /\ riskRes.visibility_score = Points(90)
    /\ riskRes.composite_score = 98500

\* The rain half of C29: a rain call with the precipitation series or the
\* probability series empty or all absent returns 0.
RainNeedsBoth ==
    (riskCall.fn = "rain"
        /\ (~HasData(riskCall.precipitation)
               \/ ~HasData(riskCall.precipitation_prob))) => riskRes = 0

\* The speed and the gust contribution of a wind call, from the peaks.
SpeedContribution(wind_speeds) ==
    IF HasData(wind_speeds) /\ Peak(wind_speeds) > 300
    THEN MinOf((Peak(wind_speeds) - 300) * 200, 40000)
    ELSE 0

GustContribution(wind_gusts) ==
    IF ~HasData(wind_gusts) THEN 0
    ELSE IF Peak(wind_gusts) >= 550 THEN 60000
    ELSE IF Peak(wind_gusts) >= 350 THEN 40000
    ELSE MinOf(Peak(wind_gusts) * 80, 30000)

\* A wind call scores whichever series has data: the contribution of the one
\* with data alone, and 0 with data in neither.
WindScoresEither ==
    riskCall.fn = "wind" =>
        /\ (~HasData(riskCall.wind_speeds) /\ ~HasData(riskCall.wind_gusts))
               => riskRes = 0
        /\ (HasData(riskCall.wind_speeds) /\ ~HasData(riskCall.wind_gusts))
               => riskRes = SpeedContribution(riskCall.wind_speeds)
        /\ (~HasData(riskCall.wind_speeds) /\ HasData(riskCall.wind_gusts))
               => riskRes = GustContribution(riskCall.wind_gusts)

\* C29: calculate_rain_score needs both series: with either the precipitation
\* or the probability series empty or all absent the rain score is 0; whereas
\* calculate_wind_score scores whichever of the speed and gust series has
\* data and returns 0 only when neither has a non-absent sample.
C29_RainBothWindEither ==
    /\ RainNeedsBoth
    /\ WindScoresEither
    /\ (riskCall.fn = "wind" /\ riskRes = 0) =>
           (~HasData(riskCall.wind_speeds) /\ ~HasData(riskCall.wind_gusts))

\* C29 as the code has it: rain needs both series; wind scores whichever
\* series has data and returns 0 when neither has a non-absent sample, and
\* also when the only data is a peak speed of at most 30 km/h or a peak gust
\* of 0.
C29_RainBothWindEitherOrCalm ==
    /\ RainNeedsBoth
    /\ WindScoresEither
    /\ (riskCall.fn = "wind" /\ ~HasData(riskCall.wind_gusts)
           /\ HasData(riskCall.wind_speeds)
           /\ Peak(riskCall.wind_speeds) <= 300) => riskRes = 0
    /\ (riskCall.fn = "wind" /\ ~HasData(riskCall.wind_speeds)
           /\ HasData(riskCall.wind_gusts)
           /\ Peak(riskCall.wind_gusts) = 0) => riskRes = 0

\* Heavy observed rain (5 mm/h) with an all-absent probability series scores 0.
HeavyRainWithoutProbability ==
    /\ riskCall.fn = "rain"
    /\ HasData(riskCall.precipitation)
    /\ Peak(riskCall.precipitation) = 50
    /\ riskCall.precipitation_prob = <<None>>
    /\ riskRes = 0

\* A peak speed of 20 km/h with no gust data is a wind score of 0 from data.
C29_Witness ==
    /\ riskCall.fn = "wind"
    /\ HasData(riskCall.wind_speeds)
    /\ Peak(riskCall.wind_speeds) = 200
    /\ riskCall.wind_gusts = <<>>
    /\ riskRes = 0

\* The series s with the sample v put after its first k samples.
InsertAt(s, k, v) == SubSeq(s, 1, k) \o <<v>> \o SubSeq(s, k + 1, Len(s))

\* Every series got by adding one sample of V, or an absent one, anywhere in
\* a series that has a present sample; nothing for a series without data.
Extended(s, V) ==
    IF HasData(s)
    THEN {InsertAt(s, k, v) : k \in 0..Len(s), v \in V \cup {None}}
    ELSE {}

\* Every reordering of the samples of s.
Reordered(s) ==
    {[i \in 1..Len(s) |-> s[f[i]]] : f \in Permutations(1..Len(s))}

RainMonotone ==
    riskCall.fn = "rain" =>
        LET p == riskCall.precipitation
            q == riskCall.precipitation_prob
            d == riskCall.is_day
        IN  /\ \A p2 \in Extended(p, PrecipReadings) :
                   calculate_rain_score(p2, q, d) >= riskRes
            /\ \A q2 \in Extended(q, ProbReadings) :
                   calculate_rain_score(p, q2, d) >= riskRes
            /\ \A p2 \in Reordered(p), q2 \in Reordered(q) :
                   calculate_rain_score(p2, q2, d) = riskRes

TemperatureMonotone ==
    riskCall.fn = "temperature" =>
        LET a == riskCall.apparent_temps
            d == riskCall.is_day
        IN  /\ \A a2 \in Extended(a, ApparentReadings) :
                   calculate_temperature_score(a2, d) >= riskRes
            /\ \A a2 \in Reordered(a) :
                   calculate_temperature_score(a2, d) = riskRes

WindMonotone ==
    riskCall.fn = "wind" =>
        LET s == riskCall.wind_speeds
            g == riskCall.wind_gusts
        IN  /\ \A s2 \in Extended(s, SpeedReadings) :
                   calculate_wind_score(s2, g) >= riskRes
            /\ \A g2 \in Extended(g, GustReadings) :
                   calculate_wind_score(s, g2) >= riskRes
            /\ \A s2 \in Reordered(s), g2 \in Reordered(g) :
                   calculate_wind_score(s2, g2) = riskRes

\* C30: rain, temperature and wind scores are monotone under added data:
\* adding any further sample (present or absent, at any position) to an input
\* series that already has a present sample never lowers the score, and the
\* scores do not change when the samples are reordered.
C30_MonotoneUnderAddedData ==
    RainMonotone /\ TemperatureMonotone /\ WindMonotone

\* Speeds 50 then 20 km/h with gusts absent then 10 km/h score 48; an absent
\* speed added in the middle leaves 48 and a 55 km/h gust added in front
\* raises the score to 100.
C30_Witness ==
    /\ riskCall.fn = "wind"
    /\ riskCall.wind_speeds = <<Some(500), Some(200)>>
    /\ riskCall.wind_gusts = <<None, Some(100)>>
    /\ riskRes = Points(48)
    /\ calculate_wind_score(InsertAt(riskCall.wind_speeds, 1, None),
                            riskCall.wind_gusts) = riskRes
    /\ calculate_wind_score(riskCall.wind_speeds,
                            InsertAt(riskCall.wind_gusts, 0, Some(550)))
           = Points(100)

====
